---- MODULE Spec2Model ----
(***************************************************************************)
(* A model of the keras-io guides under src/guides/ipynb/keras_core:       *)
(*   - "Multi-GPU distributed training with TensorFlow": the end-to-end    *)
(*     MirroredStrategy example and the fault-tolerant run_training with   *)
(*     make_or_restore_model and the ModelCheckpoint callback   (Spec);    *)
(*   - the synchronous data-parallel step the guide describes (SpecSync);  *)
(*   - "Customizing what happens in fit() with PyTorch": fit() driving the *)
(*     overridden CustomModel.train_step and its metrics      (SpecFit);   *)
(*   - GAN.train_step                                          (SpecGAN);  *)
(* and of src/examples/vision/ipynb/autoencoder.ipynb           (SpecAE).   *)
(* Model weights are abstracted to the number of optimizer updates they    *)
(* have received (or to small integers where gradients matter).            *)
(***************************************************************************)
EXTENDS Integers, Sequences, FiniteSets, TLC

VARIABLES
    \* ---- distributed_training_with_tensorflow: files and clock
    ctimeIsCreation, \* platform: os.path.getctime is the creation time (Windows)
                     \* rather than the last metadata change (Unix)
    dirExists,       \* os.path.exists(checkpoint_dir)
    dir,             \* checkpoint_dir: entry name -> entry, or NoEntry
    clock,           \* file-system time
    \* ---- the notebook's control state
    prog,            \* "e2e", "mkdir", "idle", "rt", "done", "raised"
    pc,              \* index of the next statement of the running cell/function
    scopeOpen,       \* inside `with strategy.scope():`
    hasModel,        \* a model object exists in the running cell/function
    weights,         \* updates received by that model
    modelSource,     \* "none", "fresh", or "loaded"
    loadedFrom,      \* entry name the model was loaded from, or NoName
    epochsArg,       \* run_training's epochs argument
    epochsDone,      \* epochs completed by the current fit() call
    batch,           \* batches consumed in the current epoch
    calls,           \* run_training calls started so far
    \* ---- history (observers only, never read by the program)
    ops,             \* the variable-creating / fit / evaluate operations executed,
                     \* each with the value of scopeOpen when it ran
    dirAtCall,       \* dir when the current run_training call started
    picked,          \* the entry max(checkpoints, key=getctime) returned, or NoName
    epochEnd,        \* epoch -> weights at the end of that epoch of the current call
    everCompleted,   \* some earlier run_training call has completed an epoch
    lastSavedName,   \* entry written by the most recently completed epoch
    lastSavedWeights,\* and the weights it holds
    raisedBy,        \* "none", "load" or "train"
    \* ---- synchronous data parallelism
    replicaW, localBatch, localGrad, syncPhase, syncSteps,
    \* ---- fit() and CustomModel.train_step
    variant, fitPhase, fitEpoch, yielded, stepIdx, trainCalls, metricState,
    returned, epochTotals, sinceStart,
    \* ---- GAN.train_step
    ganPc, d_w, g_w, d_grad, g_grad, d_w_before, g_w_before, ganApplied, ganSteps,
    \* ---- the autoencoder example
    aePc,            \* index of the next statement of the notebook
    env,             \* the notebook's array variables: name -> array
    aeBuilt,         \* Model(input, x) constructions so far
    aeModel,         \* the object `autoencoder` is bound to (0: unbound)
    aeWeights,       \* epochs of updates that object has received
    fitLog,          \* history: the fit() calls made
    aeLoaded         \* history: what mnist.load_data() returned

varsCkpt == << ctimeIsCreation, dirExists, dir, clock, prog, pc, scopeOpen, hasModel,
               weights, modelSource, loadedFrom, epochsArg, epochsDone, batch, calls,
               ops, dirAtCall, picked, epochEnd, everCompleted, lastSavedName,
               lastSavedWeights, raisedBy >>
varsSync == << replicaW, localBatch, localGrad, syncPhase, syncSteps >>
varsFit  == << variant, fitPhase, fitEpoch, yielded, stepIdx, trainCalls, metricState,
               returned, epochTotals, sinceStart >>
varsGAN  == << ganPc, d_w, g_w, d_grad, g_grad, d_w_before, g_w_before, ganApplied,
               ganSteps >>
varsAE == << aePc, env, aeBuilt, aeModel, aeWeights, fitLog, aeLoaded >>
vars == << varsCkpt, varsSync, varsFit, varsGAN, varsAE >>

(***************************************************************************)
(* Bounds of the model.                                                    *)
(***************************************************************************)
MaxCalls == 2      \* run_training calls explored
MaxEpochs == 2     \* largest epochs argument explored
NumBatches == 2    \* batches train_dataset yields per epoch
MaxInitTime == 2   \* ctimes of the entries found in checkpoint_dir at start

(***************************************************************************)
(* Program constants.                                                      *)
(***************************************************************************)
E2EEpochs == 2     \* model.fit(train_dataset, epochs=2, ...)

NoName == 0 - 1
OtherName == 0                   \* an entry that is not named ckpt-<n>.keras
Names == 0 .. MaxEpochs          \* n >= 1 stands for "ckpt-n.keras"
NoEntry == [present |-> FALSE]
FreshWeights == 0

Entry(cr, ch, ld, w) ==
    [present |-> TRUE, created |-> cr, changed |-> ch, loadable |-> ld, weights |-> w]

Present(d) == {n \in Names : d[n].present}

\* os.listdir(checkpoint_dir), as the list of paths built from it
checkpoints(d) == Present(d)

\* os.path.getctime: last metadata change on Unix, creation time on Windows
getctime(e) == IF ctimeIsCreation THEN e.created ELSE e.changed

\* max(checkpoints, key=os.path.getctime) picks the first entry, in listdir
\* order, whose ctime is maximal: listdir order is arbitrary, so any maximal one.
LatestByName(d) == {n \in checkpoints(d) : \A m \in checkpoints(d) : m <= n}
latest_checkpoint(d) ==
    {n \in checkpoints(d) : \A m \in checkpoints(d) : getctime(d[m]) <= getctime(d[n])}

\* get_compiled_model(): a new, compiled model
get_compiled_model == [outcome |-> "created", source |-> NoName, weights |-> FreshWeights]

\* keras.models.load_model(path): the saved model, or an exception
load_model_or_fresh(d, n) ==
    IF d[n].loadable
    THEN [outcome |-> "restored", source |-> n, weights |-> d[n].weights]
    ELSE get_compiled_model
load_model(d, n) ==
    IF d[n].loadable
    THEN [outcome |-> "restored", source |-> n, weights |-> d[n].weights]
    ELSE [outcome |-> "raised", source |-> n, weights |-> FreshWeights]

\* make_or_restore_model(), given the entry max() returned (NoName for none)
make_or_restore_model(d, latest) ==
    IF checkpoints(d) # {} THEN load_model(d, latest) ELSE get_compiled_model

\* ModelCheckpoint(filepath=checkpoint_dir + "/ckpt-{epoch}.keras"): the entry
\* written at the end of the fit() call's epoch number `epoch` (1-based)
CheckpointNameFixed(epoch) == 1
CheckpointName(epoch) == epoch

\* writing a file: a new file gets both times; an overwritten one keeps its
\* creation time and gets a new change time
save_model(d, n, w, now) ==
    [d EXCEPT ![n] = Entry(IF d[n].present THEN d[n].created ELSE now, now, TRUE, w)]

(***************************************************************************)
(* Statement order of the end-to-end cell and of run_training.             *)
(***************************************************************************)
E2EFitOutsideScope ==
    << "strategy", "enter_scope", "get_compiled_model", "get_dataset",
       "exit_scope", "fit", "evaluate" >>
E2EStatements ==
    << "strategy", "enter_scope", "get_compiled_model", "get_dataset",
       "fit", "evaluate", "exit_scope" >>
RunTrainingStatements ==
    << "strategy", "enter_scope", "make_or_restore_model", "fit", "exit_scope" >>

Stmt ==
    IF prog = "e2e" /\ pc <= Len(E2EStatements) THEN E2EStatements[pc]
    ELSE IF prog = "rt" /\ pc <= Len(RunTrainingStatements) THEN RunTrainingStatements[pc]
    ELSE "end"

Logged(op) == ops \cup {[op |-> op, cell |-> prog, inScope |-> scopeOpen]}

(***************************************************************************)
(* The distributed-training notebook: initial state.                       *)
(***************************************************************************)
\* what checkpoint_dir may hold before the notebook runs: nothing, or entries
\* left by an earlier session (checkpoints, loadable or not, and a file that
\* is no saved model)
StaleWeights(n) == n * NumBatches
InitialEntries(n) ==
    {NoEntry} \cup {Entry(t, t, ld, IF ld THEN StaleWeights(n) ELSE FreshWeights) :
                       t \in 1 .. MaxInitTime,
                       ld \in IF n = OtherName THEN {FALSE} ELSE BOOLEAN}
EmptyDir == [n \in Names |-> NoEntry]
NoEpochs == [e \in 1 .. MaxEpochs |-> NoName]

InitCkpt ==
    /\ ctimeIsCreation \in BOOLEAN
    /\ dirExists \in BOOLEAN
    /\ dir \in [Names -> UNION {InitialEntries(n) : n \in Names}]
    /\ \A n \in Names : dir[n] \in InitialEntries(n)
    /\ ~dirExists => dir = EmptyDir
    /\ clock = MaxInitTime + 1
    /\ prog = "e2e"
    /\ pc = 1
    /\ scopeOpen = FALSE
    /\ hasModel = FALSE
    /\ weights = FreshWeights
    /\ modelSource = "none"
    /\ loadedFrom = NoName
    /\ epochsArg = 0
    /\ epochsDone = 0
    /\ batch = 0
    /\ calls = 0
    /\ ops = {}
    /\ dirAtCall = dir
    /\ picked = NoName
    /\ epochEnd = NoEpochs
    /\ everCompleted = FALSE
    /\ lastSavedName = NoName
    /\ lastSavedWeights = FreshWeights
    /\ raisedBy = "none"

ParkedCkpt ==
    /\ ctimeIsCreation = FALSE
    /\ dirExists = FALSE
    /\ dir = EmptyDir
    /\ clock = MaxInitTime + 1
    /\ prog = "parked"
    /\ pc = 1
    /\ scopeOpen = FALSE
    /\ hasModel = FALSE
    /\ weights = FreshWeights
    /\ modelSource = "none"
    /\ loadedFrom = NoName
    /\ epochsArg = 0
    /\ epochsDone = 0
    /\ batch = 0
    /\ calls = 0
    /\ ops = {}
    /\ dirAtCall = EmptyDir
    /\ picked = NoName
    /\ epochEnd = NoEpochs
    /\ everCompleted = FALSE
    /\ lastSavedName = NoName
    /\ lastSavedWeights = FreshWeights
    /\ raisedBy = "none"

OnlyCkpt == UNCHANGED << varsSync, varsFit, varsGAN, varsAE >>
ckptFiles == << ctimeIsCreation, dirExists, dir, clock >>
ckptHist == << dirAtCall, picked, epochEnd, everCompleted, lastSavedName,
               lastSavedWeights, raisedBy >>
ckptFit == << epochsArg, epochsDone, batch >>
ckptModel == << hasModel, weights, modelSource, loadedFrom >>

(***************************************************************************)
(* The end-to-end example cell.                                            *)
(***************************************************************************)
\* strategy = tf.distribute.MirroredStrategy()
E2EStrategy ==
    /\ OnlyCkpt
    /\ prog = "e2e" /\ Stmt = "strategy"
    /\ pc' = pc + 1
    /\ UNCHANGED << ckptFiles, ckptHist, ckptFit, ckptModel, prog, scopeOpen, calls, ops >>

\* with strategy.scope():
E2EEnterScope ==
    /\ OnlyCkpt
    /\ prog = "e2e" /\ Stmt = "enter_scope"
    /\ scopeOpen' = TRUE
    /\ pc' = pc + 1
    /\ UNCHANGED << ckptFiles, ckptHist, ckptFit, ckptModel, prog, calls, ops >>

\* model = get_compiled_model()
E2EGetCompiledModel ==
    /\ OnlyCkpt
    /\ prog = "e2e" /\ Stmt = "get_compiled_model"
    /\ hasModel' = TRUE
    /\ weights' = get_compiled_model.weights
    /\ modelSource' = "fresh"
    /\ loadedFrom' = NoName
    /\ ops' = Logged("get_compiled_model")
    /\ pc' = pc + 1
    /\ UNCHANGED << ckptFiles, ckptHist, ckptFit, prog, scopeOpen, calls >>

\* train_dataset, val_dataset, test_dataset = get_dataset()
E2EGetDataset ==
    /\ OnlyCkpt
    /\ prog = "e2e" /\ Stmt = "get_dataset"
    /\ pc' = pc + 1
    /\ UNCHANGED << ckptFiles, ckptHist, ckptFit, ckptModel, prog, scopeOpen, calls, ops >>

\* model.fit(train_dataset, epochs=2, validation_data=val_dataset)
E2EFit ==
    /\ OnlyCkpt
    /\ prog = "e2e" /\ Stmt = "fit"
    /\ weights' = weights + E2EEpochs * NumBatches
    /\ ops' = Logged("fit")
    /\ pc' = pc + 1
    /\ UNCHANGED << ckptFiles, ckptHist, ckptFit, hasModel, modelSource, loadedFrom,
                    prog, scopeOpen, calls >>

\* model.evaluate(test_dataset)
E2EEvaluate ==
    /\ OnlyCkpt
    /\ prog = "e2e" /\ Stmt = "evaluate"
    /\ ops' = Logged("evaluate")
    /\ pc' = pc + 1
    /\ UNCHANGED << ckptFiles, ckptHist, ckptFit, ckptModel, prog, scopeOpen, calls >>

\* leaving the with block
E2EExitScope ==
    /\ OnlyCkpt
    /\ prog = "e2e" /\ Stmt = "exit_scope"
    /\ scopeOpen' = FALSE
    /\ pc' = pc + 1
    /\ UNCHANGED << ckptFiles, ckptHist, ckptFit, ckptModel, prog, calls, ops >>

\* the cell is over; the next cell starts
E2EEnd ==
    /\ OnlyCkpt
    /\ prog = "e2e" /\ Stmt = "end"
    /\ prog' = "mkdir"
    /\ pc' = 1
    /\ UNCHANGED << ckptFiles, ckptHist, ckptFit, ckptModel, scopeOpen, calls, ops >>

(***************************************************************************)
(* The fault-tolerance cell.                                               *)
(***************************************************************************)
\* if not os.path.exists(checkpoint_dir): os.makedirs(checkpoint_dir)
MakeCheckpointDir ==
    /\ OnlyCkpt
    /\ prog = "mkdir"
    /\ dirExists' = TRUE
    /\ prog' = "idle"
    /\ UNCHANGED << ctimeIsCreation, dir, clock, ckptHist, ckptFit, ckptModel, pc,
                    scopeOpen, calls, ops >>

\* run_training(epochs): a call starts (after the previous one returned or raised)
RunTraining(epochs) ==
    /\ OnlyCkpt
    /\ prog \in {"idle", "done", "raised"}
    /\ calls < MaxCalls
    /\ calls' = calls + 1
    /\ prog' = "rt"
    /\ pc' = 1
    /\ epochsArg' = epochs
    /\ epochsDone' = 0
    /\ batch' = 0
    /\ hasModel' = FALSE
    /\ weights' = FreshWeights
    /\ modelSource' = "none"
    /\ loadedFrom' = NoName
    /\ dirAtCall' = dir
    /\ picked' = NoName
    /\ epochEnd' = NoEpochs
    /\ raisedBy' = "none"
    /\ everCompleted' = (lastSavedName # NoName)
    /\ UNCHANGED << ckptFiles, scopeOpen, ops, lastSavedName, lastSavedWeights >>

\* strategy = tf.distribute.MirroredStrategy()
RTStrategy ==
    /\ OnlyCkpt
    /\ prog = "rt" /\ Stmt = "strategy"
    /\ pc' = pc + 1
    /\ UNCHANGED << ckptFiles, ckptHist, ckptFit, ckptModel, prog, scopeOpen, calls, ops >>

\* with strategy.scope():
RTEnterScope ==
    /\ OnlyCkpt
    /\ prog = "rt" /\ Stmt = "enter_scope"
    /\ scopeOpen' = TRUE
    /\ pc' = pc + 1
    /\ UNCHANGED << ckptFiles, ckptHist, ckptFit, ckptModel, prog, calls, ops >>

\* model = make_or_restore_model(); an exception of load_model leaves the
\* with block and run_training
RTMakeOrRestoreModel ==
    /\ OnlyCkpt
    /\ prog = "rt" /\ Stmt = "make_or_restore_model"
    /\ \E latest \in (IF checkpoints(dir) = {} THEN {NoName} ELSE latest_checkpoint(dir)) :
         LET r == make_or_restore_model(dir, latest) IN
           /\ picked' = latest
           /\ ops' = Logged(IF r.outcome = "created" THEN "get_compiled_model"
                                                     ELSE "load_model")
           /\ IF r.outcome = "raised"
              THEN /\ prog' = "raised"
                   /\ raisedBy' = "load"
                   /\ scopeOpen' = FALSE
                   /\ UNCHANGED << pc, ckptModel >>
              ELSE /\ hasModel' = TRUE
                   /\ weights' = r.weights
                   /\ modelSource' = IF r.outcome = "created" THEN "fresh" ELSE "loaded"
                   /\ loadedFrom' = r.source
                   /\ pc' = pc + 1
                   /\ UNCHANGED << prog, raisedBy, scopeOpen >>
    /\ UNCHANGED << ckptFiles, ckptFit, calls, dirAtCall, epochEnd, everCompleted,
                    lastSavedName, lastSavedWeights >>

\* model.fit(...): one batch of train_dataset
RTTrainStep ==
    /\ OnlyCkpt
    /\ prog = "rt" /\ Stmt = "fit"
    /\ epochsDone < epochsArg
    /\ batch < NumBatches
    /\ weights' = weights + 1
    /\ batch' = batch + 1
    /\ ops' = Logged("fit")
    /\ UNCHANGED << ckptFiles, ckptHist, hasModel, modelSource, loadedFrom, epochsArg,
                    epochsDone, prog, pc, scopeOpen, calls >>

\* model.fit(...): the end of an epoch, where ModelCheckpoint saves the model
RTEpochEnd ==
    /\ OnlyCkpt
    /\ prog = "rt" /\ Stmt = "fit"
    /\ epochsDone < epochsArg
    /\ batch = NumBatches
    /\ LET epoch == epochsDone + 1
           name == CheckpointName(epoch) IN
         /\ dir' = save_model(dir, name, weights, clock)
         /\ clock' = clock + 1
         /\ epochEnd' = [epochEnd EXCEPT ![epoch] = weights]
         /\ lastSavedName' = name
         /\ lastSavedWeights' = weights
         /\ epochsDone' = epoch
    /\ batch' = 0
    /\ ops' = Logged("fit")
    /\ UNCHANGED << ctimeIsCreation, dirExists, ckptModel, epochsArg, prog, pc, scopeOpen,
                    calls, dirAtCall, picked, everCompleted, raisedBy >>

\* model.fit(...) returns after the last epoch
RTFitReturns ==
    /\ OnlyCkpt
    /\ prog = "rt" /\ Stmt = "fit"
    /\ epochsDone = epochsArg
    /\ pc' = pc + 1
    /\ UNCHANGED << ckptFiles, ckptHist, ckptFit, ckptModel, prog, scopeOpen, calls, ops >>

\* model.fit(...) raises (a device, data or framework failure); nothing catches it
RTTrainFails ==
    /\ OnlyCkpt
    /\ prog = "rt" /\ Stmt = "fit"
    /\ epochsDone < epochsArg
    /\ prog' = "raised"
    /\ raisedBy' = "train"
    /\ scopeOpen' = FALSE
    /\ UNCHANGED << ckptFiles, ckptFit, ckptModel, pc, calls, ops, dirAtCall, picked,
                    epochEnd, everCompleted, lastSavedName, lastSavedWeights >>

\* leaving the with block
RTExitScope ==
    /\ OnlyCkpt
    /\ prog = "rt" /\ Stmt = "exit_scope"
    /\ scopeOpen' = FALSE
    /\ pc' = pc + 1
    /\ UNCHANGED << ckptFiles, ckptHist, ckptFit, ckptModel, prog, calls, ops >>

\* run_training returns
RTReturn ==
    /\ OnlyCkpt
    /\ prog = "rt" /\ Stmt = "end"
    /\ prog' = "done"
    /\ UNCHANGED << ckptFiles, ckptHist, ckptFit, ckptModel, pc, scopeOpen, calls, ops >>

Next ==
    \/ E2EStrategy
    \/ E2EEnterScope
    \/ E2EGetCompiledModel
    \/ E2EGetDataset
    \/ E2EFit
    \/ E2EEvaluate
    \/ E2EExitScope
    \/ E2EEnd
    \/ MakeCheckpointDir
    \/ \E epochs \in 1 .. MaxEpochs : RunTraining(epochs)
    \/ RTStrategy
    \/ RTEnterScope
    \/ RTMakeOrRestoreModel
    \/ RTTrainStep
    \/ RTEpochEnd
    \/ RTFitReturns
    \/ RTTrainFails
    \/ RTExitScope
    \/ RTReturn

(***************************************************************************)
(* Parts of the state a specification does not use stay parked.            *)
(***************************************************************************)
ParkedSync ==
    /\ replicaW = << >>
    /\ localBatch = << >>
    /\ localGrad = << >>
    /\ syncPhase = "parked"
    /\ syncSteps = 0

ParkedFit ==
    /\ variant = "parked"
    /\ fitPhase = "parked"
    /\ fitEpoch = 0
    /\ yielded = << >>
    /\ stepIdx = 0
    /\ trainCalls = << >>
    /\ metricState = << >>
    /\ returned = << >>
    /\ epochTotals = << >>
    /\ sinceStart = << >>

ParkedGAN ==
    /\ ganPc = "parked"
    /\ d_w = 0
    /\ g_w = 0
    /\ d_grad = 0
    /\ g_grad = 0
    /\ d_w_before = 0
    /\ g_w_before = 0
    /\ ganApplied = << >>
    /\ ganSteps = 0

ParkedAE ==
    /\ aePc = 0
    /\ env = << >>
    /\ aeBuilt = 0
    /\ aeModel = 0
    /\ aeWeights = 0
    /\ fitLog = << >>
    /\ aeLoaded = << >>

(***************************************************************************)
(* Spec: the distributed-training notebook.                                *)
(***************************************************************************)
Init == InitCkpt /\ ParkedSync /\ ParkedFit /\ ParkedGAN /\ ParkedAE
Spec == Init /\ [][Next]_vars

(***************************************************************************)
(* Claims about the distributed-training notebook (checked under Spec).    *)
(***************************************************************************)
\* make_or_restore_model has just returned to run_training
JustReturnedModel == prog = "rt" /\ Stmt = "fit" /\ epochsDone = 0 /\ batch = 0

\* C1: make_or_restore_model returns a model loaded from an entry of
\* checkpoint_dir whose os.path.getctime is greatest whenever the directory has
\* at least one entry, and a freshly built and compiled model only when the
\* directory is empty.
C1_RestoresNewestOrCreates ==
    JustReturnedModel =>
        /\ checkpoints(dirAtCall) # {} =>
              /\ modelSource = "loaded"
              /\ loadedFrom \in checkpoints(dirAtCall)
              /\ \A m \in checkpoints(dirAtCall) :
                    getctime(dirAtCall[m]) <= getctime(dirAtCall[loadedFrom])
              /\ weights = dirAtCall[loadedFrom].weights
        /\ checkpoints(dirAtCall) = {} =>
              /\ modelSource = "fresh"
              /\ weights = FreshWeights
        /\ modelSource = "fresh" => checkpoints(dirAtCall) = {}

\* a restore among several entries where the newest is not the highest-numbered
C1_Witness ==
    /\ JustReturnedModel
    /\ modelSource = "loaded"
    /\ \E m \in checkpoints(dirAtCall) :
          m > loadedFrom /\ getctime(dirAtCall[m]) < getctime(dirAtCall[loadedFrom])

\* C2: once a run_training call has completed at least one epoch, every later
\* run_training call restores the model saved by the most recently completed
\* epoch instead of creating a new one, so that training accumulates.
C2_ResumesFromLastEpoch ==
    (JustReturnedModel /\ everCompleted) =>
        /\ modelSource = "loaded"
        /\ loadedFrom = lastSavedName
        /\ weights = lastSavedWeights

\* C3: during run_training(epochs=n) a checkpoint is saved at the end of every
\* epoch under that epoch's number; whenever epoch e of the call has completed,
\* also after fit() has failed later on, the entry ckpt-e exists, is loadable
\* and holds the model as it was at the end of epoch e.
C3_CheckpointPerEpoch ==
    prog \in {"rt", "raised", "done"} =>
        \A e \in 1 .. epochsDone :
            /\ dir[e].present
            /\ dir[e].loadable
            /\ epochEnd[e] # NoName
            /\ dir[e].weights = epochEnd[e]

\* fit() failed in the middle of epoch 2: the model has moved on, ckpt-1 has not
C3_Witness ==
    /\ prog = "raised" /\ raisedBy = "train"
    /\ epochsDone = 1 /\ batch >= 1
    /\ dir[1].weights = epochEnd[1]
    /\ weights # dir[1].weights

\* C4: in the end-to-end example and in run_training, every operation that
\* creates model variables (get_compiled_model, load_model) and every fit and
\* evaluate runs while the MirroredStrategy scope is open.
C4_EverythingInScope == \A o \in ops : o.inScope

\* both cells have run their model creation, fit and evaluate
C4_Witness ==
    /\ \A op \in {"get_compiled_model", "fit", "evaluate"} :
          \E o \in ops : o.op = op /\ o.cell = "e2e"
    /\ \A op \in {"load_model", "fit"} : \E o \in ops : o.op = op /\ o.cell = "rt"
    /\ prog = "done"

\* C10: when loading the latest checkpoint fails, the error leaves
\* run_training uncaught: the call ends by the exception, no model is created
\* as a fallback, no epoch runs and no checkpoint is written in that call.
C10_LoadFailurePropagates ==
    (prog \in {"rt", "raised", "done"} /\ picked # NoName /\ ~dirAtCall[picked].loadable) =>
        /\ prog = "raised"
        /\ raisedBy = "load"
        /\ ~scopeOpen
        /\ ~hasModel
        /\ modelSource = "none"
        /\ epochsDone = 0
        /\ batch = 0
        /\ dir = dirAtCall

\* a load failure in a call made after an earlier call had trained
C10_Witness ==
    /\ prog = "raised" /\ raisedBy = "load"
    /\ picked # NoName /\ ~dirAtCall[picked].loadable
    /\ calls >= 2

(***************************************************************************)
(* SpecSync: one machine, NumReplicas devices, synchronous data            *)
(* parallelism as the guide describes it ("How it works").  A weight is an *)
(* integer, a local batch is the target it pulls the weight towards.       *)
(***************************************************************************)
NumReplicas == 2     \* devices (the guide: typically 2 to 16)
MaxSyncSteps == 3    \* training steps explored
MaxData == 1         \* local batches are drawn from 0 .. MaxData
MaxInitWeight == 1   \* the model's initial weight is drawn from 0 .. MaxInitWeight

Replicas == 1 .. NumReplicas
NoGrad == [done |-> FALSE, g |-> 0]
Grad(v) == [done |-> TRUE, g |-> v]

\* backward pass of a replica: the gradient of the loss on its local batch
Gradient(w, b) == w - b

RECURSIVE SumTo(_, _)
SumTo(g, n) == IF n = 0 THEN 0 ELSE g[n].g + SumTo(g, n - 1)

\* the update a replica applies: the local gradients merged across all replicas
OwnGradient(g, r) == g[r].g
MergedUpdate(g, r) == SumTo(g, NumReplicas)

InitSync ==
    /\ \E w \in 0 .. MaxInitWeight : replicaW = [r \in Replicas |-> w]
    /\ localBatch = [r \in Replicas |-> 0]
    /\ localGrad = [r \in Replicas |-> NoGrad]
    /\ syncPhase = "idle"
    /\ syncSteps = 0

OnlySync == UNCHANGED << varsCkpt, varsFit, varsGAN, varsAE >>

\* the global batch is split into one local batch per replica
SplitGlobalBatch ==
    /\ OnlySync
    /\ syncPhase = "idle"
    /\ syncSteps < MaxSyncSteps
    /\ localBatch' \in [Replicas -> 0 .. MaxData]
    /\ localGrad' = [r \in Replicas |-> NoGrad]
    /\ syncPhase' = "step"
    /\ UNCHANGED << replicaW, syncSteps >>

\* a replica independently runs forward and backward on its local batch
ReplicaBackward(r) ==
    /\ OnlySync
    /\ syncPhase = "step"
    /\ ~localGrad[r].done
    /\ localGrad' = [localGrad EXCEPT ![r] = Grad(Gradient(replicaW[r], localBatch[r]))]
    /\ UNCHANGED << replicaW, localBatch, syncPhase, syncSteps >>

\* end of the step: the updates are merged and applied to every replica
MergeUpdates ==
    /\ OnlySync
    /\ syncPhase = "step"
    /\ \A r \in Replicas : localGrad[r].done
    /\ replicaW' = [r \in Replicas |-> replicaW[r] - MergedUpdate(localGrad, r)]
    /\ syncPhase' = "idle"
    /\ syncSteps' = syncSteps + 1
    /\ UNCHANGED << localBatch, localGrad >>

InitS == ParkedCkpt /\ InitSync /\ ParkedFit /\ ParkedGAN /\ ParkedAE
NextSync ==
    \/ SplitGlobalBatch
    \/ \E r \in Replicas : ReplicaBackward(r)
    \/ MergeUpdates
SpecSync == InitS /\ [][NextSync]_vars

\* C5: each replica processes its own local batch, the updates are merged
\* across all replicas at the end of every step, and so after every completed
\* training step all replicas hold identical weights.
C5_ReplicasInSync ==
    /\ syncPhase = "idle" => \A r1, r2 \in Replicas : replicaW[r1] = replicaW[r2]
    /\ \A r \in Replicas :
          (syncPhase = "step" /\ localGrad[r].done) =>
              localGrad[r].g = replicaW[r] - localBatch[r]

\* a completed step in which the replicas had different local batches and
\* therefore different local gradients
C5_Witness ==
    /\ syncPhase = "idle"
    /\ syncSteps >= 1
    /\ \E r1, r2 \in Replicas : localGrad[r1].g # localGrad[r2].g
    /\ \A r1, r2 \in Replicas : replicaW[r1] = replicaW[r2]

(***************************************************************************)
(* SpecFit: fit() and evaluate() of the torch guide driving CustomModel.   *)
(* variant "train_step": the first CustomModel (compile(loss="mse",        *)
(* metrics=["mae"]), train_step loops over self.metrics);                  *)
(* variant "lowlevel":   the CustomModel with its own loss_tracker and     *)
(* mae_metric and the metrics property;                                    *)
(* variant "test_step":  the CustomModel overriding test_step.             *)
(* A batch b carries the data (x_b, y_b); the forward pass yields some     *)
(* prediction; the loss is the squared error and mae the absolute error.   *)
(***************************************************************************)
NumFitBatches == 2   \* batches the training data yields per epoch
MaxFitEpochs == 2    \* the epochs argument of fit()
MaxPred == 2         \* predictions are drawn from 0 .. MaxPred

Variants == {"train_step", "lowlevel", "test_step"}
MetricNames == {"loss", "mae"}
FitBatches == 1 .. NumFitBatches

\* what the data source yields for batch b: the tuple (x, y)
BatchData(b) == << b, b % (MaxPred + 1) >>

\* the orders in which a (possibly shuffling) data source yields the batches
YieldOrders ==
    {o \in [FitBatches -> FitBatches] : \A i, j \in FitBatches : o[i] = o[j] => i = j}

ZeroMetric == [total |-> 0, count |-> 0]
ZeroMetrics == [n \in MetricNames |-> ZeroMetric]
NoLogs == [n \in {} |-> << 0, 1 >>]

AbsDiff(a, b) == IF a >= b THEN a - b ELSE b - a
\* keras.losses.MeanSquaredError / loss="mse"
compute_loss(y, y_pred) == (y - y_pred) * (y - y_pred)

\* Metric.update_state with one value; Metric.result as the fraction total/count
update_state(st, v) == [total |-> st.total + v, count |-> st.count + 1]
result(st) == IF st.count = 0 THEN << 0, 1 >> ELSE << st.total, st.count >>

\* self.metrics: the compiled loss tracker and metric, or the metrics property
metrics_without_mae(v) == IF v = "lowlevel" THEN << "loss" >> ELSE << "loss", "mae" >>
metrics(v) == << "loss", "mae" >>

Range(q) == {q[i] : i \in 1 .. Len(q)}

\* Model.reset_metrics(): reset_state() on every metric listed in self.metrics
reset_metrics(ms, v) ==
    [n \in MetricNames |-> IF n \in Range(metrics(v)) THEN ZeroMetric ELSE ms[n]]

\* the metric updates of a step: `for metric in self.metrics` in the compiled
\* variants, the two trackers directly in the lower-level one
UpdatedMetrics(ms, v, loss, y, y_pred) ==
    [n \in MetricNames |->
        IF v = "lowlevel" \/ n \in Range(metrics(v))
        THEN IF n = "loss" THEN update_state(ms[n], loss)
                           ELSE update_state(ms[n], AbsDiff(y, y_pred))
        ELSE ms[n]]

\* the dict a step returns, given the metrics after their update
StepLogs(ms, v) ==
    IF v = "lowlevel"
    THEN [n \in {"loss", "mae"} |-> result(ms[n])]
    ELSE [n \in Range(metrics(v)) |-> result(ms[n])]

\* CustomModel.train_step(data) / test_step(data): the new metric states and
\* the returned dict
StaleLogsStep(ms, v, data, y_pred) ==
    LET loss == compute_loss(data[2], y_pred) IN
      [state |-> UpdatedMetrics(ms, v, loss, data[2], y_pred), logs |-> StepLogs(ms, v)]
train_step(ms, v, data, y_pred) ==
    LET loss == compute_loss(data[2], y_pred)
        after == UpdatedMetrics(ms, v, loss, data[2], y_pred) IN
      [state |-> after, logs |-> StepLogs(after, v)]

\* fit()'s loop over an epoch ends when the data source is exhausted
StopsOneEarly(s, ys) == s >= Len(ys) - 1
EpochExhausted(s, ys) == s = Len(ys)

InitFit ==
    /\ variant \in Variants
    /\ fitPhase = "ready"
    /\ fitEpoch = 0
    /\ yielded = << >>
    /\ stepIdx = 0
    /\ trainCalls = << >>
    /\ metricState = ZeroMetrics
    /\ returned = NoLogs
    /\ epochTotals = ZeroMetrics
    /\ sinceStart = ZeroMetrics

OnlyFit == UNCHANGED << varsCkpt, varsSync, varsGAN, varsAE >>

\* fit(x, y, epochs) / evaluate(x, y): the beginning of an epoch (of the one
\* pass of evaluate): the metrics are reset and the data source starts over
EpochBegin ==
    /\ OnlyFit
    /\ \/ /\ variant \in {"train_step", "lowlevel"}
          /\ fitPhase \in {"ready", "between"}
          /\ fitEpoch < MaxFitEpochs
          /\ fitPhase' = "epoch"
          /\ fitEpoch' = fitEpoch + 1
       \/ /\ variant \in {"test_step", "lowlevel"}
          /\ fitPhase \in {"ready", "done"}
          /\ fitPhase' = "evaluate"
          /\ fitEpoch' = 1
    /\ metricState' = reset_metrics(metricState, variant)
    /\ yielded' \in {[i \in FitBatches |-> BatchData(o[i])] : o \in YieldOrders}
    /\ stepIdx' = 0
    /\ trainCalls' = << >>
    /\ returned' = NoLogs
    /\ epochTotals' = ZeroMetrics
    /\ UNCHANGED << variant, sinceStart >>

\* one batch: fit() calls train_step (evaluate() calls test_step) with the data
\* the source yields next
Step ==
    /\ OnlyFit
    /\ \/ fitPhase = "epoch"
       \/ fitPhase = "evaluate" /\ variant = "test_step"
    /\ ~EpochExhausted(stepIdx, yielded)
    /\ \E y_pred \in 0 .. MaxPred :
         LET data == yielded[stepIdx + 1]
             r == train_step(metricState, variant, data, y_pred)
             loss == compute_loss(data[2], y_pred)
             mae == AbsDiff(data[2], y_pred) IN
           /\ metricState' = r.state
           /\ returned' = r.logs
           /\ trainCalls' = Append(trainCalls, data)
           /\ epochTotals' =
                 [n \in MetricNames |-> update_state(epochTotals[n],
                                                     IF n = "loss" THEN loss ELSE mae)]
           /\ sinceStart' =
                 [n \in MetricNames |-> update_state(sinceStart[n],
                                                     IF n = "loss" THEN loss ELSE mae)]
    /\ stepIdx' = stepIdx + 1
    /\ UNCHANGED << variant, fitPhase, fitEpoch, yielded >>

\* the data source is exhausted: the epoch (the evaluation) is over
EpochEnd ==
    /\ OnlyFit
    /\ fitPhase \in {"epoch", "evaluate"}
    /\ \/ EpochExhausted(stepIdx, yielded)
       \/ fitPhase = "evaluate" /\ variant = "lowlevel"
    /\ fitPhase' = IF fitPhase = "evaluate" THEN "evaluated"
                   ELSE IF fitEpoch = MaxFitEpochs THEN "done" ELSE "between"
    /\ UNCHANGED << variant, fitEpoch, yielded, stepIdx, trainCalls, metricState,
                    returned, epochTotals, sinceStart >>

InitF == ParkedCkpt /\ ParkedSync /\ InitFit /\ ParkedGAN /\ ParkedAE
NextFit ==
    \/ EpochBegin
    \/ Step
    \/ EpochEnd
SpecFit == InitF /\ [][NextFit]_vars

\* C6: fit() calls the overridden train_step exactly once for every batch of
\* the training data, in the order the data source yields them, in every
\* epoch, and each call's data argument is what the source yields for that
\* batch (the tuple (x, y)).
C6_TrainStepPerBatch ==
    variant \in {"train_step", "lowlevel"} =>
        /\ fitPhase = "epoch" =>
              /\ stepIdx <= Len(yielded)
              /\ trainCalls = SubSeq(yielded, 1, stepIdx)
        /\ fitPhase \in {"between", "done"} =>
              /\ trainCalls = yielded
              /\ \A b \in FitBatches :
                    Cardinality({i \in 1 .. Len(trainCalls) : trainCalls[i] = BatchData(b)}) = 1

\* the last epoch of a fit() whose data source yielded batch 2 first
C6_Witness ==
    /\ variant = "train_step"
    /\ fitPhase = "done"
    /\ fitEpoch = MaxFitEpochs
    /\ Len(trainCalls) = NumFitBatches
    /\ trainCalls[1] = BatchData(2)

\* C7: the first CustomModel's train_step returns a dict with exactly one
\* entry per metric of self.metrics, keyed by the metric's name and including
\* "loss", each value being that metric's result after this step's update.
C7_TrainStepReturnsMetrics ==
    (variant = "train_step" /\ fitPhase = "epoch" /\ stepIdx >= 1) =>
        /\ DOMAIN returned = Range(metrics(variant))
        /\ Cardinality(DOMAIN returned) = Len(metrics(variant))
        /\ "loss" \in DOMAIN returned
        /\ \A n \in DOMAIN returned :
              /\ returned[n] = result(metricState[n])
              /\ metricState[n].count = stepIdx
              /\ returned[n] = << epochTotals[n].total, epochTotals[n].count >>

\* a second step of an epoch whose loss and mae differ
C7_Witness ==
    /\ variant = "train_step" /\ fitPhase = "epoch" /\ stepIdx = 2
    /\ returned["loss"][1] > 0
    /\ returned["mae"] # returned["loss"]

\* C8: for the lower-level CustomModel both trackers are reset at the
\* beginning of every fit() epoch and of evaluate(), so the loss and mae that
\* train_step returns are averages over the steps of the current epoch only.
C8_MetricsResetEachEpoch ==
    variant = "lowlevel" =>
        /\ (fitPhase \in {"epoch", "evaluate"} /\ stepIdx = 0) =>
              \A n \in {"loss", "mae"} : metricState[n] = ZeroMetric
        /\ (fitPhase = "epoch" /\ stepIdx >= 1) =>
              \A n \in {"loss", "mae"} :
                  /\ returned[n] = result(epochTotals[n])
                  /\ epochTotals[n].count = stepIdx

\* a step of the second epoch whose returned loss is not the average since the
\* start of training
C8_Witness ==
    /\ variant = "lowlevel" /\ fitPhase = "epoch" /\ fitEpoch = 2 /\ stepIdx >= 1
    /\ returned["loss"][1] * sinceStart["loss"].count
          # sinceStart["loss"].total * returned["loss"][2]
    /\ returned["mae"][1] * sinceStart["mae"].count
          # sinceStart["mae"].total * returned["mae"][2]

(***************************************************************************)
(* SpecGAN: GAN.train_step.  The discriminator and the generator each have *)
(* one integer weight; .grad of a weight is an integer once a backward     *)
(* pass has filled it (0 after zero_grad).                                 *)
(***************************************************************************)
MaxGanSteps == 2   \* train_step calls explored
MaxGrad == 1       \* gradients are drawn from -MaxGrad .. MaxGrad

Grads == (0 - MaxGrad) .. MaxGrad

\* the weights an optimizer's apply() is given in the generator phase
all_trainable_weights == {"generator", "discriminator"}
generator_phase_weights == {"generator"}
\* ... and in the discriminator phase
discriminator_phase_weights == {"discriminator"}

\* optimizer.apply(grads, weights): a gradient step on the weights it is given
apply(w, grad, name, given) == IF name \in given THEN w - grad ELSE w

InitGAN ==
    /\ ganPc = "start"
    /\ d_w = 0
    /\ g_w = 0
    /\ d_grad = 0
    /\ g_grad = 0
    /\ d_w_before = 0
    /\ g_w_before = 0
    /\ ganApplied = << >>
    /\ ganSteps = 0

OnlyGAN == UNCHANGED << varsCkpt, varsSync, varsFit, varsAE >>

\* train_step is called: latent points are sampled, fake images generated and
\* combined with the real ones, labels assembled; then self.zero_grad()
GanBegin ==
    /\ OnlyGAN
    /\ ganPc = "start"
    /\ ganSteps < MaxGanSteps
    /\ d_grad' = 0
    /\ g_grad' = 0
    /\ ganApplied' = << >>
    /\ ganPc' = "d_forward"
    /\ UNCHANGED << d_w, g_w, d_w_before, g_w_before, ganSteps >>

\* d_loss.backward(): gradients reach the discriminator's weights, and the
\* generator's too, since generated_images came out of the generator
GanDiscBackward ==
    /\ OnlyGAN
    /\ ganPc = "d_forward"
    /\ d_grad' \in Grads
    /\ g_grad' \in Grads
    /\ ganPc' = "d_backward"
    /\ UNCHANGED << d_w, g_w, d_w_before, g_w_before, ganApplied, ganSteps >>

\* self.d_optimizer.apply(grads, self.discriminator.trainable_weights)
GanDiscApply ==
    /\ OnlyGAN
    /\ ganPc = "d_backward"
    /\ d_w' = apply(d_w, d_grad, "discriminator", discriminator_phase_weights)
    /\ g_w' = apply(g_w, g_grad, "generator", discriminator_phase_weights)
    /\ ganApplied' = Append(ganApplied, << "d_optimizer", discriminator_phase_weights >>)
    /\ ganPc' = "d_applied"
    /\ UNCHANGED << d_grad, g_grad, d_w_before, g_w_before, ganSteps >>

\* the generator phase starts: new latent points, misleading labels,
\* self.zero_grad()
GanGenZeroGrad ==
    /\ OnlyGAN
    /\ ganPc = "d_applied"
    /\ d_grad' = 0
    /\ g_grad' = 0
    /\ d_w_before' = d_w
    /\ g_w_before' = g_w
    /\ ganPc' = "g_forward"
    /\ UNCHANGED << d_w, g_w, ganApplied, ganSteps >>

\* g_loss.backward(): the loss goes through the discriminator, so gradients
\* reach the weights of both networks
GanGenBackward ==
    /\ OnlyGAN
    /\ ganPc = "g_forward"
    /\ d_grad' \in Grads
    /\ g_grad' \in Grads
    /\ ganPc' = "g_backward"
    /\ UNCHANGED << d_w, g_w, d_w_before, g_w_before, ganApplied, ganSteps >>

\* self.g_optimizer.apply(grads, self.generator.trainable_weights)
GanGenApply ==
    /\ OnlyGAN
    /\ ganPc = "g_backward"
    /\ d_w' = apply(d_w, d_grad, "discriminator", generator_phase_weights)
    /\ g_w' = apply(g_w, g_grad, "generator", generator_phase_weights)
    /\ ganApplied' = Append(ganApplied, << "g_optimizer", generator_phase_weights >>)
    /\ ganPc' = "g_applied"
    /\ UNCHANGED << d_grad, g_grad, d_w_before, g_w_before, ganSteps >>

\* the trackers are updated and train_step returns
GanReturn ==
    /\ OnlyGAN
    /\ ganPc = "g_applied"
    /\ ganPc' = "start"
    /\ ganSteps' = ganSteps + 1
    /\ UNCHANGED << d_w, g_w, d_grad, g_grad, d_w_before, g_w_before, ganApplied >>

InitG == ParkedCkpt /\ ParkedSync /\ ParkedFit /\ InitGAN /\ ParkedAE
NextGAN ==
    \/ GanBegin
    \/ GanDiscBackward
    \/ GanDiscApply
    \/ GanGenZeroGrad
    \/ GanGenBackward
    \/ GanGenApply
    \/ GanReturn
SpecGAN == InitG /\ [][NextGAN]_vars

InGeneratorPhase == ganPc \in {"g_forward", "g_backward", "g_applied"}

\* C9: the generator phase of GAN.train_step does not update the weights of
\* the discriminator: g_optimizer applies the gradients to the generator's
\* weights only, and the discriminator's weights are the same after the
\* generator phase as before it.
C9_GeneratorPhaseKeepsDiscriminator ==
    /\ InGeneratorPhase => d_w = d_w_before
    /\ ganPc = "g_applied" =>
          /\ g_w = g_w_before - g_grad
          /\ ganApplied[Len(ganApplied)] = << "g_optimizer", {"generator"} >>

\* the generator phase has applied its update while the backward pass had left
\* a non-zero gradient on the discriminator's weight
C9_Witness ==
    /\ ganPc = "g_applied"
    /\ d_grad # 0
    /\ g_w # g_w_before
    /\ d_w = d_w_before

(***************************************************************************)
(* SpecAE: the autoencoder example.  An array is a shape and its elements  *)
(* in row-major order; an image has ImgSide x ImgSide pixels; a float is   *)
(* the fraction num/den.                                                   *)
(***************************************************************************)
MaxImages == 2     \* images per data set
ImgSide == 2       \* side of an image (28 in MNIST)
MaxSeed == 1       \* data sets are generated from a seed in 0 .. MaxSeed
MaxNoise == 2      \* noise samples are generated from a pattern in 1 .. MaxNoise

PixelMax == 255    \* array.astype("float32") / 255.0
CleanEpochs == 50  \* autoencoder.fit(..., epochs=50, ...)
NoisyEpochs == 100 \* autoencoder.fit(..., epochs=100, ...)

NoArray == [shape |-> << >>, data |-> << >>]
ArrayNames == {"train_data", "test_data", "noisy_train_data", "noisy_test_data"}

RECURSIVE Size(_)
Size(shape) == IF shape = << >> THEN 1 ELSE Head(shape) * Size(Tail(shape))

\* position, in row-major order, of the element at a (1-based) index
RECURSIVE Offset(_, _)
Offset(shape, idx) ==
    IF shape = << >> THEN 0
    ELSE (Head(idx) - 1) * Size(Tail(shape)) + Offset(Tail(shape), Tail(idx))
At(a, idx) == a.data[Offset(a.shape, idx) + 1]

\* mnist.load_data(): n images of integer pixels 0 .. 255
Strides == {1, 85}
RawImages(n, seed, stride) ==
    [shape |-> << n, ImgSide, ImgSide >>,
     data |-> [k \in 1 .. n * ImgSide * ImgSide |->
                  (seed + (k - 1) * stride) % (PixelMax + 1)]]
DataSets ==
    {RawImages(n, seed, stride) :
        n \in 1 .. MaxImages, seed \in 0 .. MaxSeed, stride \in Strides}

\* the cast to float32 alone, without the division
Unnormalized(v) == [num |-> v, den |-> 1]
\* array.astype("float32") / 255.0, elementwise: the value num / den
Normalize(v) == [num |-> v, den |-> PixelMax]

\* np.reshape(array, newshape): the same elements in the same row-major order
reshape(a, newshape) ==
    IF Size(newshape) = Len(a.data) THEN [shape |-> newshape, data |-> a.data]
    ELSE NoArray

\* preprocess(array)
preprocess(a) ==
    LET normalized == [shape |-> a.shape,
                       data |-> [k \in 1 .. Len(a.data) |-> Normalize(a.data[k])]] IN
      reshape(normalized, << a.shape[1], ImgSide, ImgSide, 1 >>)

\* noise(array): array + 0.4 * normal sample, clipped to [0, 1]; the sample of
\* pattern p is -1, 0 or 1 per element
Clip(n, lo, hi) == IF n < lo THEN lo ELSE IF n > hi THEN hi ELSE n
noise(a, p) ==
    [shape |-> a.shape,
     data |-> [k \in 1 .. Len(a.data) |->
                 LET e == a.data[k]
                     sample == ((k + p) % 3) - 1 IN
                   [num |-> Clip(e.num + sample * ((2 * e.den) \div 5), 0, e.den),
                    den |-> e.den]]]

\* the arguments of the two fit() calls
CleanFitArgs ==
    [x |-> "train_data", y |-> "train_data", val_x |-> "test_data", val_y |-> "test_data",
     epochs |-> CleanEpochs]
\* a second fit whose targets are the noisy arrays too
NoisyFitNoisyTarget ==
    [x |-> "noisy_train_data", y |-> "noisy_train_data",
     val_x |-> "noisy_test_data", val_y |-> "noisy_test_data", epochs |-> NoisyEpochs]
\* autoencoder.fit(x=noisy_train_data, y=train_data, epochs=100,
\*                 validation_data=(noisy_test_data, test_data))
NoisyFitArgs ==
    [x |-> "noisy_train_data", y |-> "train_data",
     val_x |-> "noisy_test_data", val_y |-> "test_data", epochs |-> NoisyEpochs]

\* the cells of the notebook, in order
AEStatements ==
    << "preprocess_train", "preprocess_test", "noise_train", "noise_test", "build",
       "fit_clean", "predict_clean", "fit_noisy", "predict_noisy" >>
AEStmt == IF aePc >= 1 /\ aePc <= Len(AEStatements) THEN AEStatements[aePc] ELSE "end"

\* (train_data, _), (test_data, _) = mnist.load_data()
InitAE ==
    /\ aePc = 1
    /\ \E tr \in DataSets, te \in DataSets :
          /\ aeLoaded = [train |-> tr, test |-> te]
          /\ env = [n \in ArrayNames |->
                      IF n = "train_data" THEN tr ELSE IF n = "test_data" THEN te
                      ELSE NoArray]
    /\ aeBuilt = 0
    /\ aeModel = 0
    /\ aeWeights = 0
    /\ fitLog = << >>

OnlyAE == UNCHANGED << varsCkpt, varsSync, varsFit, varsGAN >>

\* train_data = preprocess(train_data)
AEPreprocessTrain ==
    /\ OnlyAE
    /\ AEStmt = "preprocess_train"
    /\ env' = [env EXCEPT !["train_data"] = preprocess(env["train_data"])]
    /\ aePc' = aePc + 1
    /\ UNCHANGED << aeBuilt, aeModel, aeWeights, fitLog, aeLoaded >>

\* test_data = preprocess(test_data)
AEPreprocessTest ==
    /\ OnlyAE
    /\ AEStmt = "preprocess_test"
    /\ env' = [env EXCEPT !["test_data"] = preprocess(env["test_data"])]
    /\ aePc' = aePc + 1
    /\ UNCHANGED << aeBuilt, aeModel, aeWeights, fitLog, aeLoaded >>

\* noisy_train_data = noise(train_data)
AENoiseTrain ==
    /\ OnlyAE
    /\ AEStmt = "noise_train"
    /\ \E p \in 1 .. MaxNoise :
          env' = [env EXCEPT !["noisy_train_data"] = noise(env["train_data"], p)]
    /\ aePc' = aePc + 1
    /\ UNCHANGED << aeBuilt, aeModel, aeWeights, fitLog, aeLoaded >>

\* noisy_test_data = noise(test_data)
AENoiseTest ==
    /\ OnlyAE
    /\ AEStmt = "noise_test"
    /\ \E p \in 1 .. MaxNoise :
          env' = [env EXCEPT !["noisy_test_data"] = noise(env["test_data"], p)]
    /\ aePc' = aePc + 1
    /\ UNCHANGED << aeBuilt, aeModel, aeWeights, fitLog, aeLoaded >>

\* autoencoder = Model(input, x); autoencoder.compile(...): a new, untrained model
AEBuild ==
    /\ OnlyAE
    /\ AEStmt = "build"
    /\ aeBuilt' = aeBuilt + 1
    /\ aeModel' = aeBuilt + 1
    /\ aeWeights' = 0
    /\ aePc' = aePc + 1
    /\ UNCHANGED << env, fitLog, aeLoaded >>

\* autoencoder.fit(x=..., y=..., epochs=..., validation_data=(..., ...)): the
\* model the name is bound to is trained further, from the weights it has
AEFit(args) ==
    /\ fitLog' = Append(fitLog, [model |-> aeModel, startWeights |-> aeWeights,
                                 x |-> env[args.x], y |-> env[args.y],
                                 val_x |-> env[args.val_x], val_y |-> env[args.val_y]])
    /\ aeWeights' = aeWeights + args.epochs
    /\ aePc' = aePc + 1
    /\ UNCHANGED << env, aeBuilt, aeModel, aeLoaded >>

AEFitClean ==
    /\ OnlyAE
    /\ AEStmt = "fit_clean"
    /\ AEFit(CleanFitArgs)

AEFitNoisy ==
    /\ OnlyAE
    /\ AEStmt = "fit_noisy"
    /\ AEFit(NoisyFitArgs)

\* predictions = autoencoder.predict(...); display(...)
AEPredict ==
    /\ OnlyAE
    /\ AEStmt \in {"predict_clean", "predict_noisy"}
    /\ aePc' = aePc + 1
    /\ UNCHANGED << env, aeBuilt, aeModel, aeWeights, fitLog, aeLoaded >>

InitA == ParkedCkpt /\ ParkedSync /\ ParkedFit /\ ParkedGAN /\ InitAE
NextAE ==
    \/ AEPreprocessTrain
    \/ AEPreprocessTest
    \/ AENoiseTrain
    \/ AENoiseTest
    \/ AEBuild
    \/ AEFitClean
    \/ AEFitNoisy
    \/ AEPredict
SpecAE == InitA /\ [][NextAE]_vars

\* C11: the second fit call retrains the autoencoder instance the first fit
\* call trained (not rebuilt or re-initialised in between), with the noisy
\* images as input and the clean images as target, for the training and for
\* the validation data; in every fit call the target is the clean data.
C11_RetrainsSameModelOnCleanTarget ==
    /\ \A k \in 1 .. Len(fitLog) :
          /\ fitLog[k].y = preprocess(aeLoaded.train)
          /\ fitLog[k].val_y = preprocess(aeLoaded.test)
          /\ fitLog[k].y = env["train_data"]
          /\ fitLog[k].val_y = env["test_data"]
          /\ fitLog[k].model # 0
          /\ fitLog[k].model = fitLog[1].model
    /\ Len(fitLog) >= 1 =>
          /\ fitLog[1].x = env["train_data"]
          /\ fitLog[1].val_x = env["test_data"]
          /\ fitLog[1].startWeights = 0
    /\ Len(fitLog) >= 2 =>
          /\ fitLog[2].x = env["noisy_train_data"]
          /\ fitLog[2].val_x = env["noisy_test_data"]
          /\ fitLog[2].startWeights = CleanEpochs
          /\ aeBuilt = 1
          /\ aeWeights = CleanEpochs + NoisyEpochs

\* both fit calls are made and the noisy inputs differ from the clean targets
C11_Witness ==
    /\ Len(fitLog) = 2
    /\ fitLog[2].x # fitLog[2].y
    /\ fitLog[2].val_x # fitLog[2].val_y
    /\ fitLog[2].model = fitLog[1].model

\* out is the array a with every pixel divided by 255 and a channel axis added
Preprocessed(a, out) ==
    LET n == a.shape[1] IN
      /\ out.shape = << n, ImgSide, ImgSide, 1 >>
      /\ Len(out.data) = n * ImgSide * ImgSide
      /\ \A i \in 1 .. n, r \in 1 .. ImgSide, c \in 1 .. ImgSide :
            LET v == At(out, << i, r, c, 1 >>) IN
              /\ v.num * PixelMax = At(a, << i, r, c >>) * v.den
              /\ v.den > 0
              /\ 0 <= v.num
              /\ v.num <= v.den

\* C12: preprocess maps an array of n images with integer pixels 0..255 to an
\* array of shape (n, side, side, 1) whose values lie in [0, 1], each the pixel
\* at the same image, row and column divided by 255.
C12_PreprocessNormalizes ==
    /\ aePc >= 2 => Preprocessed(aeLoaded.train, env["train_data"])
    /\ aePc >= 3 => Preprocessed(aeLoaded.test, env["test_data"])

\* several images have been preprocessed, a pixel 255 and a pixel 0 among them
C12_Witness ==
    /\ aePc >= 3
    /\ aeLoaded.train.shape[1] >= 2
    /\ \E k \in 1 .. Len(aeLoaded.train.data) :
          /\ aeLoaded.train.data[k] = PixelMax
          /\ env["train_data"].data[k].num = env["train_data"].data[k].den
    /\ \E k \in 1 .. Len(aeLoaded.train.data) : env["train_data"].data[k].num = 0
    /\ aeLoaded.test # aeLoaded.train

====
